---- MODULE Spec2Model ----
(***************************************************************************)
(* A model of server.py: the tool dispatcher (_call_tool_request), the     *)
(* pydantic input models, the two query builders (_query_mountains,        *)
(* _query_routes), the mountain-info and weather executors, and the        *)
(* store / HTTP boundaries they call.                                      *)
(*                                                                         *)
(* Values are tagged tuples, so that values of different Python types can  *)
(* sit in one dictionary or parameter list: <<"none">> is None,            *)
(* <<"int", n>> an int, <<"str", s>> a str, <<"bool", b>> a bool,          *)
(* <<"list", seq>> a list, <<"obj">> a JSON object (no field type admits   *)
(* it) and <<"missing">> marks a key that the argument object lacks.       *)
(* Query text is a sequence of tokens; "+=" on the text is \o.             *)
(***************************************************************************)
EXTENDS Integers, Sequences, FiniteSets, TLC

VARIABLES
    pc,            \* position of the request: idle, connect, execute, fetch, points, forecast, done
    tool_name,     \* req.params.name
    rawArgs,       \* req.params.arguments as the caller sent them
    arguments,     \* the dict handed to the handler (model_dump of the validated input)
    stage,         \* which store query the handler is waiting for: none, search, lookup, count
    query,         \* the query text and parameter list passed to _execute_query
    storeLog,      \* the queries cursor.execute has sent to the store for this request
    connOpen,      \* number of store connections currently open
    connLog,       \* "open" / "close" events of this request, in order
    fetchLog,      \* the row sequences the store returned for this request, in order
    httpLog,       \* the HTTP GETs issued for this request, in order
    mountain_data, \* the mapped mountain row kept between two steps of a handler
    result,        \* the CallToolResult returned for the request
    outcomes       \* what the store and the weather service did for this request: <<"store" / "points" / "forecast", outcome>>, in order

vars == <<pc, tool_name, rawArgs, arguments, stage, query, storeLog, fetchLog, connOpen,
          connLog, httpLog, mountain_data, result, outcomes>>

(***************************************************************************)
(* Bounds of the model.                                                    *)
(***************************************************************************)
\* At most this many fields are set in one argument object.
MaxSupplied == 2
\* At most this many rows come back from a search query.
MaxRows == 2
\* At most FORECAST_PERIODS + MaxPeriods periods in a forecast.
MaxPeriods == 2

(***************************************************************************)
(* Tagged values.                                                          *)
(***************************************************************************)
None == <<"none">>
Missing == <<"missing">>
Obj == <<"obj">>
Err == <<"err">>
I(n) == <<"int", n>>
S(s) == <<"str", s>>
B(b) == <<"bool", b>>
\* float(v) and int(v) of a number: the same number as a float, as an int.
Float(v) == <<"float", v[2]>>
ToInt(v) == <<"int", v[2]>>
L(seq) == <<"list", seq>>
\* f"%{value}%": the value wrapped in the two wildcard characters.
Like(v) == <<"pattern", <<"%", v[2], "%">> >>
Tag(v) == v[1]

\* Python truthiness of a tagged value (None, 0, "", [] and False are falsy).
Truthy(v) ==
    CASE Tag(v) = "none" -> FALSE
      [] Tag(v) \in {"int", "float"} -> v[2] # 0
      [] Tag(v) = "str" -> v[2] # ""
      [] Tag(v) = "bool" -> v[2]
      [] Tag(v) = "list" -> Len(v[2]) > 0
      [] OTHER -> TRUE

\* int(s) / pydantic's str -> int: the numerals among the strings of the model.
IntLiterals == ("0" :> 0) @@ ("2" :> 2) @@ ("7" :> 7)

\* str.upper() on the strings of the model.
Upper(s) ==
    CASE s \in {"asc", "ASC"} -> "ASC"
      [] s \in {"desc", "DESC"} -> "DESC"
      [] s = "sideways" -> "SIDEWAYS"
      [] OTHER -> s

(***************************************************************************)
(* Constants of server.py.                                                 *)
(***************************************************************************)
_MOUNTAINS_SELECT_FIELDS == "mountain_id, mountain_name, rank, elevation, mountain_range, county, latitude, longitude, nearby_towns, image_filename, mountain_url"
_MOUNTAINS_VALID_ORDER_BY == {"elevation", "rank"}
_MOUNTAINS_VALID_ORDER_DIRECTION == {"ASC", "DESC"}
_MOUNTAINS_MAX_LIMIT == 1000
_ROUTES_SELECT_FIELDS == "mountain_name, route_name, route_difficulty, roundtrip_distance, elevation_gain, range, snow, snow_difficulty, risk_factor_exposure, risk_factor_rockfall, risk_factor_route_finding, risk_factor_commitment, route_url, standard"
_ROUTES_VALID_ORDER_BY == {"roundtrip_distance", "elevation_gain", "route_difficulty", "mountain_name"}
_ROUTES_VALID_ORDER_DIRECTION == {"ASC", "DESC"}
_ROUTES_MAX_LIMIT == 1000
FORECAST_PERIODS == 7

\* _MOUNTAINS_RANK_FILTERS: the clause of each named rank filter.
_MOUNTAINS_RANK_FILTERS ==
    ("exclude_unranked" :> <<"AND rank IS NOT NULL">>)
    @@ ("only_unranked" :> <<"AND rank IS NULL">>)
    @@ ("include_all" :> <<>>)

TOOL_HANDLERS == {"get_mountains", "get_routes", "get_mountain_info", "get_weather"}
TOOL_INPUT_MODELS == {"get_mountains", "get_routes", "get_mountain_info", "get_weather"}

\* The enumeration the get_routes inputSchema declares for route_difficulty items.
DifficultyEnum ==
    {"Class 1", "Class 2", "Class 3", "Class 4", "Class 5", "Difficult Class 2", "Easy Class 3"}

(***************************************************************************)
(* The pydantic input models: fields, annotations, defaults, validators.   *)
(***************************************************************************)
MountainsInput ==
    [limit |-> "Optional[int]", min_elevation |-> "Optional[int]",
     max_elevation |-> "Optional[int]", rank_filter |-> "Optional[str]",
     name_search |-> "Optional[str]", mountain_range |-> "Optional[str]",
     county |-> "Optional[str]", nearby_towns |-> "Optional[str]",
     order_by |-> "Optional[str]", order_direction |-> "Optional[str]"]

RoutesInput ==
    [limit |-> "Optional[int]", mountain_name |-> "Optional[str]",
     route_name |-> "Optional[str]", route_difficulty |-> "Optional[List[str]]",
     range |-> "Optional[str]", snow |-> "Optional[bool]", standard |-> "Optional[bool]",
     min_distance |-> "Optional[float]", max_distance |-> "Optional[float]",
     min_elevation_gain |-> "Optional[int]", max_elevation_gain |-> "Optional[int]",
     order_by |-> "Optional[str]", order_direction |-> "Optional[str]"]

MountainInfoInput == [mountain_name |-> "str"]

WeatherInput == [mountain_name |-> "str"]

InputModel(tool) ==
    CASE tool = "get_mountains" -> MountainsInput
      [] tool = "get_routes" -> RoutesInput
      [] tool = "get_mountain_info" -> MountainInfoInput
      [] tool = "get_weather" -> WeatherInput

Fields(tool) == DOMAIN InputModel(tool)

\* The defaults as they would be if mountain_name were declared with a
\* default of "" instead of being required.
FieldDefault_optional_name(tool, f) ==
    CASE f = "limit" -> I(10)
      [] f = "order_by" /\ tool = "get_mountains" -> S("elevation")
      [] f = "order_by" /\ tool = "get_routes" -> S("mountain_name")
      [] f = "order_direction" /\ tool = "get_mountains" -> S("DESC")
      [] f = "order_direction" /\ tool = "get_routes" -> S("ASC")
      [] f = "mountain_name" /\ tool \in {"get_mountain_info", "get_weather"} -> S("")
      [] OTHER -> None

\* The value a field takes when the argument object lacks it
\* (Err: the field is required).
FieldDefault(tool, f) ==
    CASE f = "limit" -> I(10)
      [] f = "order_by" /\ tool = "get_mountains" -> S("elevation")
      [] f = "order_by" /\ tool = "get_routes" -> S("mountain_name")
      [] f = "order_direction" /\ tool = "get_mountains" -> S("DESC")
      [] f = "order_direction" /\ tool = "get_routes" -> S("ASC")
      [] InputModel(tool)[f] = "str" -> Err
      [] OTHER -> None

\* pydantic's (lax) validation of one value against an annotation: the
\* validated value, or Err when the annotation does not admit the value.
Coerce(type, v) ==
    IF type = "str" THEN (IF Tag(v) = "str" THEN v ELSE Err)
    ELSE IF v = None THEN None
    ELSE IF type = "Optional[str]" THEN (IF Tag(v) = "str" THEN v ELSE Err)
    ELSE IF type \in {"Optional[int]", "Optional[float]"} THEN
        (IF Tag(v) = "int" THEN v
         ELSE IF Tag(v) = "str" /\ v[2] \in DOMAIN IntLiterals THEN I(IntLiterals[v[2]])
         ELSE Err)
    ELSE IF type = "Optional[bool]" THEN
        (IF Tag(v) = "bool" THEN v
         ELSE IF Tag(v) = "int" /\ v[2] \in {0, 1} THEN B(v[2] = 1)
         ELSE Err)
    ELSE \* Optional[List[str]]
        (IF Tag(v) = "list" /\ \A i \in 1..Len(v[2]) : Tag(v[2][i]) = "str" THEN v ELSE Err)

\* The limit constraint as it would be if it clamped into [1, 1000]
\* instead of rejecting.
LimitConstraint_clamping(v) ==
    IF v = None THEN None
    ELSE IF v[2] < 1 THEN I(1)
    ELSE IF v[2] > 1000 THEN I(1000)
    ELSE v

\* Field(ge=1, le=1000) on limit.
LimitConstraint(v) ==
    IF v = None THEN None
    ELSE IF v[2] >= 1 /\ v[2] <= 1000 THEN v ELSE Err

\* validate_order_by as it would be without the membership test.
validate_order_by_passthrough(tool, v) ==
    IF v = None THEN S(IF tool = "get_mountains" THEN "elevation" ELSE "mountain_name")
    ELSE v

\* MountainsInput.validate_order_by / RoutesInput.validate_order_by.
validate_order_by(tool, v) ==
    LET valid == IF tool = "get_mountains" THEN _MOUNTAINS_VALID_ORDER_BY
                 ELSE _ROUTES_VALID_ORDER_BY
        dflt == IF tool = "get_mountains" THEN "elevation" ELSE "mountain_name"
    IN IF v = None \/ v[2] \notin valid THEN S(dflt) ELSE v

\* MountainsInput.validate_order_direction / RoutesInput.validate_order_direction.
validate_order_direction(tool, v) ==
    LET valid == IF tool = "get_mountains" THEN _MOUNTAINS_VALID_ORDER_DIRECTION
                 ELSE _ROUTES_VALID_ORDER_DIRECTION
        dflt == IF tool = "get_mountains" THEN "DESC" ELSE "ASC"
    IN IF v = None THEN S(dflt)
       ELSE LET v_upper == Upper(v[2])
            IN IF v_upper \notin valid THEN S(dflt) ELSE S(v_upper)

\* The validated value of field f of the tool's input model for raw value v.
ValidateField(tool, f, v) ==
    IF v = Missing THEN FieldDefault(tool, f)
    ELSE LET c == Coerce(InputModel(tool)[f], v)
         IN IF c = Err THEN Err
            ELSE IF f = "limit" THEN LimitConstraint(c)
            ELSE IF f = "order_by" THEN validate_order_by(tool, c)
            ELSE IF f = "order_direction" THEN validate_order_direction(tool, c)
            ELSE c

\* exc.errors(): the fields of the argument object that fail validation.
\* Keys that are not fields of the model are ignored (no model sets
\* extra="forbid").
ValidationErrors(tool, raw) ==
    {f \in Fields(tool) : ValidateField(tool, f, raw[f]) = Err}

\* input_model.model_validate(arguments).model_dump(exclude_none=False).
model_validate(tool, raw) ==
    [f \in Fields(tool) |-> ValidateField(tool, f, raw[f])]

(***************************************************************************)
(* The query builders.  A query is [text, params].                         *)
(***************************************************************************)
Min(a, b) == IF a < b THEN a ELSE b

\* _mountains_add_filter as it would be if the ILIKE pattern were formatted
\* into the query text instead of being bound.
_mountains_add_filter_interpolating(q, condition, value, use_like) ==
    IF value = None \/ value = S("") THEN q
    ELSE IF use_like THEN
        [text |-> q.text \o <<"AND", condition, "ILIKE", value[2]>>, params |-> q.params]
    ELSE
        [text |-> q.text \o <<"AND", condition, "%s">>,
         params |-> Append(q.params, value)]

\* _mountains_add_filter(query, params, condition, value, use_like).
_mountains_add_filter(q, condition, value, use_like) ==
    IF value = None \/ value = S("") THEN q
    ELSE IF use_like THEN
        [text |-> q.text \o <<"AND", condition, "ILIKE", "%s">>,
         params |-> Append(q.params, Like(value))]
    ELSE
        [text |-> q.text \o <<"AND", condition, "%s">>,
         params |-> Append(q.params, value)]

\* _routes_add_filter as it would be if the value were put at the head of
\* the parameter list.
_routes_add_filter_prepending(q, condition, value, use_like) ==
    IF value = None \/ value = S("") THEN q
    ELSE [text |-> q.text \o <<"AND", condition, "ILIKE", "%s">>,
          params |-> <<Like(value)>> \o q.params]

\* _routes_add_filter(query, params, condition, value, use_like).
_routes_add_filter(q, condition, value, use_like) ==
    IF value = None \/ value = S("") THEN q
    ELSE IF use_like THEN
        [text |-> q.text \o <<"AND", condition, "ILIKE", "%s">>,
         params |-> Append(q.params, Like(value))]
    ELSE
        [text |-> q.text \o <<"AND", condition, "=", "%s">>,
         params |-> Append(q.params, value)]

\* filter_specs of _query_mountains: (condition, argument, use_like).
MountainsFilterSpecs ==
    << <<"elevation >=", "min_elevation", FALSE>>,
       <<"elevation <=", "max_elevation", FALSE>>,
       <<"mountain_name", "name_search", TRUE>>,
       <<"mountain_range", "mountain_range", TRUE>>,
       <<"county", "county", TRUE>>,
       <<"nearby_towns", "nearby_towns", TRUE>> >>

\* filter_specs of _query_routes.
RoutesFilterSpecs ==
    << <<"mountain_name", "mountain_name", TRUE>>,
       <<"route_name", "route_name", TRUE>>,
       <<"\"range\"", "range", TRUE>> >>

\* for condition, value, use_like in filter_specs: the loop of _query_mountains,
\* from the i-th spec on.
RECURSIVE MountainsFilterLoop(_, _, _)
MountainsFilterLoop(q, args, i) ==
    IF i > Len(MountainsFilterSpecs) THEN q
    ELSE LET spec == MountainsFilterSpecs[i]
         IN MountainsFilterLoop(
                _mountains_add_filter(q, spec[1], args[spec[2]], spec[3]), args, i + 1)

\* The same loop of _query_routes.
RECURSIVE RoutesFilterLoop(_, _, _)
RoutesFilterLoop(q, args, i) ==
    IF i > Len(RoutesFilterSpecs) THEN q
    ELSE LET spec == RoutesFilterSpecs[i]
         IN RoutesFilterLoop(
                _routes_add_filter(q, spec[1], args[spec[2]], spec[3]), args, i + 1)

\* The rank filter as it would be if the lookup used rank_filter itself,
\* without falling back to "exclude_unranked" for a falsy value.
RankClause_no_default(q, rank_filter) ==
    IF ~Truthy(rank_filter) THEN q
    ELSE IF rank_filter[2] \in DOMAIN _MOUNTAINS_RANK_FILTERS THEN
        [text |-> q.text \o _MOUNTAINS_RANK_FILTERS[rank_filter[2]], params |-> q.params]
    ELSE IF rank_filter[2] \in DOMAIN IntLiterals THEN
        [text |-> q.text \o <<"AND rank =", "%s">>,
         params |-> Append(q.params, I(IntLiterals[rank_filter[2]]))]
    ELSE q

\* The rank filter of _query_mountains (lines 407-423).
RankClause(q, rank_filter) ==
    LET key == IF Truthy(rank_filter) THEN rank_filter[2] ELSE "exclude_unranked"
    IN IF key \in DOMAIN _MOUNTAINS_RANK_FILTERS THEN
           [text |-> q.text \o _MOUNTAINS_RANK_FILTERS[key], params |-> q.params]
       ELSE IF key \in DOMAIN IntLiterals THEN
           \* rank_value = int(rank_filter)
           [text |-> q.text \o <<"AND rank =", "%s">>,
            params |-> Append(q.params, I(IntLiterals[key]))]
       ELSE q  \* ValueError: the filter is skipped

\* ORDER BY: the validated field and direction are formatted into the text.
OrderClause(q, args) ==
    [text |-> q.text \o <<"ORDER BY", args.order_by[2], args.order_direction[2]>>,
     params |-> q.params]

\* The LIMIT clause as it would be without min(limit, max).
LimitClause_uncapped(q, limit, max) ==
    IF Truthy(limit) /\ limit[2] > 0 THEN
        [text |-> q.text \o <<"LIMIT", "%s">>, params |-> Append(q.params, limit)]
    ELSE q

\* if limit and limit > 0: query += " LIMIT %s"; params.append(min(limit, max)).
LimitClause(q, limit, max) ==
    IF Truthy(limit) /\ limit[2] > 0 THEN
        [text |-> q.text \o <<"LIMIT", "%s">>,
         params |-> Append(q.params, I(Min(limit[2], max)))]
    ELSE q

Terminate(q) == [text |-> q.text \o <<";">>, params |-> q.params]

\* The query _query_mountains builds from its arguments (lines 398-447).
MountainsQuery(args) ==
    LET q0 == [text |-> <<"SELECT", _MOUNTAINS_SELECT_FIELDS, "FROM mountains WHERE 1=1">>,
               params |-> <<>>]
        q1 == RankClause(q0, args.rank_filter)
        q2 == MountainsFilterLoop(q1, args, 1)
        q3 == OrderClause(q2, args)
    IN Terminate(LimitClause(q3, args.limit, _MOUNTAINS_MAX_LIMIT))

\* ",".join(["%s"] * n)
RECURSIVE Placeholders(_)
Placeholders(n) ==
    IF n = 0 THEN <<>>
    ELSE IF n = 1 THEN <<"%s">>
    ELSE <<"%s", ",">> \o Placeholders(n - 1)

\* The value list in reverse.
Reverse(seq) == [i \in 1..Len(seq) |-> seq[Len(seq) + 1 - i]]

\* The route_difficulty filter as it would be if the values were bound in
\* another order than the caller's.
DifficultyClause_reordered(q, route_difficulty) ==
    IF ~Truthy(route_difficulty) THEN q
    ELSE IF Tag(route_difficulty) = "list" /\ Len(route_difficulty[2]) > 0 THEN
        [text |-> q.text \o <<"AND route_difficulty IN (">>
                         \o Placeholders(Len(route_difficulty[2])) \o <<")">>,
         params |-> q.params \o Reverse(route_difficulty[2])]
    ELSE q

\* The route_difficulty filter of _query_routes (lines 518-529).
DifficultyClause(q, route_difficulty) ==
    IF ~Truthy(route_difficulty) THEN q
    ELSE IF Tag(route_difficulty) = "list" /\ Len(route_difficulty[2]) > 0 THEN
        [text |-> q.text \o <<"AND route_difficulty IN (">>
                         \o Placeholders(Len(route_difficulty[2])) \o <<")">>,
         params |-> q.params \o route_difficulty[2]]
    ELSE IF Tag(route_difficulty) = "str" THEN
        [text |-> q.text \o <<"AND route_difficulty =", "%s">>,
         params |-> Append(q.params, route_difficulty)]
    ELSE q

\* The boolean and range filters as they would be under "if arguments.get(name):".
NotNoneClause_truthy(q, clause, value) ==
    IF Truthy(value) THEN
        [text |-> q.text \o <<clause, "%s">>, params |-> Append(q.params, value)]
    ELSE q

\* if arguments.get(name) is not None: query += clause; params.append(value).
NotNoneClause(q, clause, value) ==
    IF value # None THEN
        [text |-> q.text \o <<clause, "%s">>, params |-> Append(q.params, value)]
    ELSE q

\* The query _query_routes builds from its arguments (lines 499-565).
RoutesQuery(args) ==
    LET q0 == [text |-> <<"SELECT", _ROUTES_SELECT_FIELDS, "FROM routes WHERE 1=1">>,
               params |-> <<>>]
        q1 == RoutesFilterLoop(q0, args, 1)
        q2 == DifficultyClause(q1, args.route_difficulty)
        q3 == NotNoneClause(q2, "AND snow =", args.snow)
        q4 == NotNoneClause(q3, "AND standard =", args.standard)
        q5 == NotNoneClause(q4, "AND roundtrip_distance >=", args.min_distance)
        q6 == NotNoneClause(q5, "AND roundtrip_distance <=", args.max_distance)
        q7 == NotNoneClause(q6, "AND elevation_gain >=", args.min_elevation_gain)
        q8 == NotNoneClause(q7, "AND elevation_gain <=", args.max_elevation_gain)
        q9 == OrderClause(q8, args)
    IN Terminate(LimitClause(q9, args.limit, _ROUTES_MAX_LIMIT))

\* The mountain lookup of _get_mountain_info and _get_weather.
LookupQuery(args) ==
    [text |-> <<"SELECT", _MOUNTAINS_SELECT_FIELDS,
                "FROM mountains WHERE mountain_name ILIKE", "%s", "LIMIT 1", ";">>,
     params |-> <<Like(args.mountain_name)>>]

\* The route-count query of _get_mountain_info.
RouteCountQuery(name) ==
    [text |-> <<"SELECT COUNT(*) FROM routes WHERE mountain_name =", "%s">>,
     params |-> <<name>>]

(***************************************************************************)
(* Rows of the store and the row mappers.                                  *)
(***************************************************************************)
_MOUNTAINS_IMAGE_BASE_URL == "https://kxvaohpqmhdtptwnaoyb.supabase.co/storage/v1/object/public/mountains/"

MountainRow(id, name, rank, lat, lon, image) ==
    [mountain_id |-> I(id), mountain_name |-> S(name), rank |-> rank,
     elevation |-> I(14000 + id), mountain_range |-> S("Sawatch Range"),
     county |-> S("Lake"), latitude |-> lat, longitude |-> lon,
     nearby_towns |-> S("Leadville"), image_filename |-> image,
     mountain_url |-> S("https://www.14ers.com/")]

\* The kinds of mountain row the store may hold: a ranked peak with
\* coordinates and an image, an unranked one without either, one stored at
\* latitude and longitude 0, one stored out of range at (200, 200), one whose
\* latitude alone is out of range and one whose longitude alone is.
MountainRows ==
    << MountainRow(1, "Mt. Elbert", I(1), I(39), I(-106), S("elbert.jpg")),
       MountainRow(2, "North Massive", None, None, None, None),
       MountainRow(3, "Null Island Peak", I(3), I(0), I(0), S("")),
       MountainRow(4, "Misplaced Peak", I(4), I(200), I(200), None),
       MountainRow(5, "Polar Peak", I(5), I(91), I(-106), None),
       MountainRow(6, "Dateline Peak", I(6), I(39), I(-181), None) >>

\* _mountains_row_to_dict(row).
_mountains_row_to_dict(row) ==
    [id |-> row.mountain_id,
     name |-> row.mountain_name,
     rank |-> row.rank,
     elevation |-> row.elevation,
     elevation_ft |-> <<"concat", <<row.elevation, S("ft")>> >>,
     range |-> row.mountain_range,
     county |-> row.county,
     latitude |-> IF Truthy(row.latitude) THEN Float(row.latitude) ELSE None,
     longitude |-> IF Truthy(row.longitude) THEN Float(row.longitude) ELSE None,
     nearby_towns |-> row.nearby_towns,
     image_url |-> IF Truthy(row.image_filename)
                   THEN <<"concat", <<S(_MOUNTAINS_IMAGE_BASE_URL), row.image_filename>> >>
                   ELSE None,
     image_filename |-> row.image_filename,
     mountain_url |-> row.mountain_url]

RouteRow(name, distance, gain, snow, snow_difficulty, standard) ==
    [mountain_name |-> S("Mt. Elbert"), route_name |-> S(name),
     route_difficulty |-> S("Class 2"), roundtrip_distance |-> distance,
     elevation_gain |-> gain, range |-> S("Sawatch Range"), snow |-> snow,
     snow_difficulty |-> snow_difficulty, risk_factor_exposure |-> S("Low"),
     risk_factor_rockfall |-> S("Low"), risk_factor_route_finding |-> S("Low"),
     risk_factor_commitment |-> S("Low"), route_url |-> None, standard |-> standard]

\* The kinds of route row: a snow route, a route whose snow flag is false
\* though the snow_difficulty column holds a value and whose distance and
\* gain are 0, a route with every optional column null but a snow
\* difficulty, and a snow route without a snow difficulty.
RouteRows ==
    << RouteRow("Northeast Ridge", I(9), I(4500), B(TRUE), S("Moderate Snow"), B(TRUE)),
       RouteRow("Flat Walk", I(0), I(0), B(FALSE), S("Easy Snow"), B(FALSE)),
       RouteRow("Unknown Way", None, None, None, S("Hard Snow"), None),
       RouteRow("Couloir", I(7), I(3900), B(TRUE), None, B(FALSE)) >>

\* The mapping as it would be if the record were the row's columns by name.
_routes_row_to_dict_all_columns(row) == row

\* _routes_row_to_dict(row).
_routes_row_to_dict(row) ==
    LET res ==
            [mountain_name |-> row.mountain_name,
             route_name |-> row.route_name,
             route_difficulty |-> row.route_difficulty,
             roundtrip_distance |-> IF Truthy(row.roundtrip_distance)
                                    THEN Float(row.roundtrip_distance) ELSE None,
             elevation_gain |-> IF Truthy(row.elevation_gain)
                                THEN ToInt(row.elevation_gain) ELSE None,
             range |-> row.range,
             snow |-> IF row.snow # None THEN B(Truthy(row.snow)) ELSE None,
             risk_factor_exposure |-> row.risk_factor_exposure,
             risk_factor_rockfall |-> row.risk_factor_rockfall,
             risk_factor_route_finding |-> row.risk_factor_route_finding,
             risk_factor_commitment |-> row.risk_factor_commitment,
             route_url |-> row.route_url,
             standard |-> IF row.standard # None THEN B(Truthy(row.standard)) ELSE None]
    IN IF Truthy(row.snow) THEN res @@ ("snow_difficulty" :> row.snow_difficulty) ELSE res

\* n rows of a table whose rows cycle through the row kinds, from the
\* first-th kind on.
TableRows(kinds, first, n) == [i \in 1..n |-> kinds[((first + i - 2) % Len(kinds)) + 1]]

MapRows(rows, tool) ==
    [i \in 1..Len(rows) |->
        IF tool = "get_mountains" THEN _mountains_row_to_dict(rows[i])
        ELSE _routes_row_to_dict(rows[i])]

(***************************************************************************)
(* Results.  The text is a fixed message and the value formatted into it;  *)
(* structuredContent is <<"none">> or a tagged payload; meta names the     *)
(* widget whose invocation metadata the result carries.                    *)
(***************************************************************************)
\* A result as it would be if the error flag were never set.
Result_flag_unset(msg, detail, structured, isError, meta) ==
    [text |-> [msg |-> msg, detail |-> detail], structuredContent |-> structured,
     isError |-> FALSE, meta |-> meta]

Result(msg, detail, structured, isError, meta) ==
    [text |-> [msg |-> msg, detail |-> detail], structuredContent |-> structured,
     isError |-> isError, meta |-> meta]

NoResult == Result("", None, None, FALSE, "none")
NoQuery == [text |-> <<>>, params |-> <<>>]

\* The message of each handler's "except Exception as e" clause.
FailMsg(tool) ==
    CASE tool = "get_mountains" -> "Failed to query mountains: "
      [] tool = "get_routes" -> "Failed to query routes: "
      [] tool = "get_mountain_info" -> "Failed to get mountain information: "
      [] tool = "get_weather" -> "Failed to get weather: "

NoMountainsText ==
    "No mountains found matching the criteria. Note: By default, unranked mountains are excluded. Try using 'rank_filter: \"include_all\"' to include all mountains."

(***************************************************************************)
(* The argument objects callers send.                                      *)
(***************************************************************************)
UnknownField == "color"
UnknownTool == "get_peaks"

\* How many values a route_difficulty list of the model may hold.
MaxDifficulties == 2

\* A difficulty list of n values, in an order that is not the sorted one.
DifficultyList(n) == L([i \in 1..n |-> S(IF i % 2 = 1 THEN "Class 4" ELSE "Class 3")])

LimitValues == {None, I(0), I(1), I(25), I(1000), I(1001), S("7"), Obj}
DirectionValues == {S("asc"), S("DESC"), S("sideways"), None}

\* The <<field, value>> pairs an argument object of the tool is made of.
Candidates(tool) ==
    CASE tool = "get_mountains" ->
            ({"limit"} \X LimitValues)
            \cup ({"min_elevation"} \X {I(0), I(14000)})
            \cup ({"max_elevation"} \X {I(14400)})
            \cup ({"rank_filter"} \X {S("exclude_unranked"), S("only_unranked"),
                                      S("include_all"), S("2"), S("7"), S("abc"), S(""),
                                      None, I(2)})
            \cup ({"name_search"} \X {S(""), S("Elbert"), S("x' OR '1'='1")})
            \cup ({"mountain_range"} \X {S("Sawatch")})
            \cup ({"county"} \X {S("Lake")})
            \cup ({"nearby_towns"} \X {S("Leadville")})
            \cup ({"order_by"} \X {S("rank"), S("rank; DROP TABLE mountains"), None})
            \cup ({"order_direction"} \X DirectionValues)
            \cup ({UnknownField} \X {S("red")})
      [] tool = "get_routes" ->
            ({"limit"} \X LimitValues)
            \cup ({"mountain_name"} \X {S("Elbert")})
            \cup ({"route_name"} \X {S("")})
            \cup ({"route_difficulty"} \X
                    ({DifficultyList(n) : n \in 0..MaxDifficulties}
                     \cup {L(<<S("Class 9")>>), S("Class 3")}))
            \cup ({"range"} \X {S("Sawatch")})
            \cup ({"snow"} \X {B(TRUE), B(FALSE)})
            \cup ({"standard"} \X {B(FALSE), I(1)})
            \cup ({"min_distance"} \X {I(0), I(5)})
            \cup ({"max_distance"} \X {I(12)})
            \cup ({"min_elevation_gain"} \X {I(0)})
            \cup ({"max_elevation_gain"} \X {I(4000)})
            \cup ({"order_by"} \X {S("elevation_gain"), S("rank"), None})
            \cup ({"order_direction"} \X DirectionValues)
            \cup ({UnknownField} \X {S("red")})
      [] OTHER ->
            ({"mountain_name"} \X {S("Elbert"), S(""), None, Obj})
            \cup ({UnknownField} \X {S("red")})

RawDomain(tool) ==
    (IF tool \in TOOL_HANDLERS THEN Fields(tool) ELSE {"mountain_name"}) \cup {UnknownField}

\* The argument objects of the tool with at most k keys set.
RECURSIVE ArgObjects(_, _)
ArgObjects(tool, k) ==
    IF k = 0 THEN {[f \in RawDomain(tool) |-> Missing]}
    ELSE LET prev == ArgObjects(tool, k - 1)
         IN prev \cup {[r EXCEPT ![c[1]] = c[2]] : r \in prev, c \in Candidates(tool)}

MountainsRequests == ArgObjects("get_mountains", MaxSupplied)
RoutesRequests == ArgObjects("get_routes", MaxSupplied)
NameRequests == ArgObjects("get_mountain_info", MaxSupplied)

RequestsOf(tool) ==
    CASE tool = "get_mountains" -> MountainsRequests
      [] tool = "get_routes" -> RoutesRequests
      [] OTHER -> NameRequests

(***************************************************************************)
(* The state machine.                                                      *)
(***************************************************************************)
Init ==
    /\ pc = "idle"
    /\ tool_name = ""
    /\ rawArgs = <<>>
    /\ arguments = <<>>
    /\ stage = "none"
    /\ query = NoQuery
    /\ storeLog = <<>>
    /\ fetchLog = <<>>
    /\ connOpen = 0
    /\ connLog = <<>>
    /\ httpLog = <<>>
    /\ mountain_data = <<>>
    /\ result = NoResult
    /\ outcomes = <<>>

\* return CallToolResult(...): the request ends with result r.
Return(r) ==
    /\ result' = r
    /\ pc' = "done"

\* The first query a handler builds from its arguments.
FirstQuery(tool, args) ==
    CASE tool = "get_mountains" -> MountainsQuery(args)
      [] tool = "get_routes" -> RoutesQuery(args)
      [] OTHER -> LookupQuery(args)

\* A handler is entered with its arguments: it builds its first query and
\* calls _execute_query (the start of _query_mountains, _query_routes,
\* _get_mountain_info and _get_weather).
StartHandler(tool, args) ==
    /\ arguments' = args
    /\ query' = FirstQuery(tool, args)
    /\ stage' = IF tool \in {"get_mountains", "get_routes"} THEN "search" ELSE "lookup"
    /\ pc' = "connect"
    /\ UNCHANGED <<outcomes, storeLog, fetchLog, connOpen, connLog, httpLog, mountain_data, result>>

\* The result for an unknown tool as it would be without the tool's name.
UnknownToolResult_anonymous(tool) == Result("Unknown tool: ", None, None, TRUE, "none")

\* The result of _call_tool_request when TOOL_HANDLERS has no handler for
\* the name (lines 1109-1120).
UnknownToolResult(tool) == Result("Unknown tool: ", S(tool), None, TRUE, "none")

\* _call_tool_request(req): handler lookup, validation, then the handler.
CallTool ==
    /\ pc = "idle"
    /\ \E tool \in TOOL_HANDLERS \cup {UnknownTool} :
       \E raw \in RequestsOf(tool) :
        /\ tool_name' = tool
        /\ rawArgs' = raw
        /\ IF tool \notin TOOL_HANDLERS THEN
               /\ Return(UnknownToolResult(tool))
               /\ UNCHANGED <<outcomes, arguments, stage, query, storeLog, fetchLog, connOpen, connLog,
                              httpLog, mountain_data>>
           ELSE IF tool \in TOOL_INPUT_MODELS /\ ValidationErrors(tool, raw) # {} THEN
               /\ Return(Result("Input validation error: ",
                                <<"fields", ValidationErrors(tool, raw)>>, None, TRUE, "none"))
               /\ UNCHANGED <<outcomes, arguments, stage, query, storeLog, fetchLog, connOpen, connLog,
                              httpLog, mountain_data>>
           ELSE StartHandler(tool, model_validate(tool, raw))

\* The handler's "except Exception" as it would be if the result did not
\* carry the exception's description.
Raise_without_description(e) == Return(Result(FailMsg(tool_name), None, None, TRUE, "none"))

\* The handler's "except Exception as e": an error result with the description.
Raise(e) == Return(Result(FailMsg(tool_name), <<"exc", e>>, None, TRUE, "none"))

\* _get_db_connection: psycopg2.connect succeeds and the connection is yielded.
Connect ==
    /\ pc = "connect"
    /\ connOpen' = connOpen + 1
    /\ connLog' = Append(connLog, "open")
    /\ pc' = "execute"
    /\ UNCHANGED <<outcomes, fetchLog, tool_name, rawArgs, arguments, stage, query, storeLog, httpLog,
                   mountain_data, result>>

\* A failed connect as it would be if _execute_query tried again.
ConnectFail_retrying ==
    /\ pc = "connect"
    /\ Len(outcomes) < 2
    /\ outcomes' = Append(outcomes, <<"store", "connect failed">>)
    /\ UNCHANGED <<pc, fetchLog, tool_name, rawArgs, arguments, stage, query, storeLog,
                   connOpen, connLog, httpLog, mountain_data, result>>

\* _get_db_config or psycopg2.connect raises: no connection exists, the
\* exception is re-raised through _execute_query to the handler.
ConnectFail ==
    /\ pc = "connect"
    /\ \E e \in {"Environment variable 'user' is required but not set",
                 "could not connect to server"} : Raise(e)
    /\ outcomes' = Append(outcomes, <<"store", "connect failed">>)
    /\ UNCHANGED <<fetchLog, tool_name, rawArgs, arguments, stage, query, storeLog, connOpen,
                   connLog, httpLog, mountain_data>>

\* cursor.execute(query, params) succeeds.
Execute ==
    /\ pc = "execute"
    /\ storeLog' = Append(storeLog, query)
    /\ pc' = "fetch"
    /\ UNCHANGED <<outcomes, fetchLog, tool_name, rawArgs, arguments, stage, query, connOpen, connLog,
                   httpLog, mountain_data, result>>

\* The "finally" of _get_db_connection as it would be without the close.
CloseConnection_skipped == UNCHANGED <<connOpen, connLog>>

\* The "finally" of _get_db_connection as it would be if the connection of a
\* name lookup were kept for the work that follows the lookup.
CloseConnection_unless_lookup ==
    IF stage = "lookup" THEN UNCHANGED <<connOpen, connLog>>
    ELSE /\ connOpen' = connOpen - 1
         /\ connLog' = Append(connLog, "close")

\* The "finally" of _get_db_connection: the open connection is closed.
CloseConnection ==
    /\ connOpen' = connOpen - 1
    /\ connLog' = Append(connLog, "close")

\* cursor.execute raises: the connection is closed and the exception re-raised.
ExecuteFail ==
    /\ pc = "execute"
    /\ storeLog' = Append(storeLog, query)
    /\ CloseConnection
    /\ Raise("query execution failed")
    /\ outcomes' = Append(outcomes, <<"store", "execute failed">>)
    /\ UNCHANGED <<fetchLog, tool_name, rawArgs, arguments, stage, query, httpLog, mountain_data>>

\* cursor.fetchall raises: the connection is closed and the exception re-raised.
FetchFail ==
    /\ pc = "fetch"
    /\ CloseConnection
    /\ Raise("row fetch failed")
    /\ outcomes' = Append(outcomes, <<"store", "fetch failed">>)
    /\ UNCHANGED <<fetchLog, tool_name, rawArgs, arguments, stage, query, storeLog, httpLog,
                   mountain_data>>

\* The rows a search may return: the LIMIT the query carries caps them.
SearchRowCounts ==
    IF Len(query.text) >= 3 /\ query.text[Len(query.text) - 2] = "LIMIT"
    THEN 0..Min(MaxRows, query.params[Len(query.params)][2])
    ELSE 0..MaxRows

\* The _meta of each tool definition _list_tools returns, named by the
\* widget it is built from ("none": the definition has no _meta).
_list_tools ==
    [get_mountains |-> "mountains-map", get_routes |-> "none",
     get_mountain_info |-> "mountain-info", get_weather |-> "none"]

\* The search result as it would be if route results carried the
\* invocation metadata of the map widget as mountain results do.
SearchResult_routes_with_meta(tool, results) ==
    LET key == IF tool = "get_mountains" THEN "mountains" ELSE "routes"
    IN IF Len(results) = 0 THEN
           Result(IF tool = "get_mountains" THEN NoMountainsText
                  ELSE "No routes found matching the criteria.",
                  None, <<key, <<>>, FALSE>>, FALSE, "none")
       ELSE
           Result(IF tool = "get_mountains" THEN "Found mountain(s)" ELSE "Found route(s)",
                  <<"count", Len(results)>>,
                  <<key, MapRows(results, tool), Len(results) > 1>>,
                  FALSE, "mountains-map")

\* The result of _query_mountains / _query_routes for the rows returned
\* (lines 456-484 and 574-595).
SearchResult(tool, results) ==
    LET key == IF tool = "get_mountains" THEN "mountains" ELSE "routes"
    IN IF Len(results) = 0 THEN
           Result(IF tool = "get_mountains" THEN NoMountainsText
                  ELSE "No routes found matching the criteria.",
                  None, <<key, <<>>, FALSE>>, FALSE, "none")
       ELSE
           Result(IF tool = "get_mountains" THEN "Found mountain(s)" ELSE "Found route(s)",
                  <<"count", Len(results)>>,
                  <<key, MapRows(results, tool), Len(results) > 1>>,
                  FALSE,
                  IF tool = "get_mountains" THEN "mountains-map" ELSE "none")

\* _query_mountains / _query_routes after _execute_query returned rows.
FetchSearchRows ==
    /\ pc = "fetch"
    /\ stage = "search"
    /\ CloseConnection
    /\ \E n \in SearchRowCounts :
       \E first \in 1..Len(IF tool_name = "get_mountains" THEN MountainRows ELSE RouteRows) :
        LET results == TableRows(IF tool_name = "get_mountains" THEN MountainRows
                                 ELSE RouteRows, first, n)
        IN /\ fetchLog' = Append(fetchLog, results)
           /\ Return(SearchResult(tool_name, results))
    /\ UNCHANGED <<outcomes, tool_name, rawArgs, arguments, stage, query, storeLog, httpLog,
                   mountain_data>>

\* The rows a "LIMIT 1" lookup may return: none, or one row of any kind.
LookupResults == {<<>>} \cup {<<MountainRows[i]>> : i \in 1..Len(MountainRows)}

\* The "not found" result as it would be if a missing mountain were an error.
MountainNotFound_as_error ==
    [text |-> [msg |-> "No mountain found matching the criteria.", detail |-> None],
     structuredContent |-> None, isError |-> TRUE, meta |-> "none"]

\* The result of _get_mountain_info when no mountain matches (lines 624-629).
MountainNotFound ==
    Result("No mountain found matching the criteria.", None, <<"info", <<>>, 0>>, FALSE, "none")

\* _get_mountain_info after the mountain lookup returned (lines 622-638):
\* no row gives the "not found" payload; a row is mapped and the route-count
\* query is handed to _execute_query.
FetchMountainLookup ==
    /\ pc = "fetch"
    /\ stage = "lookup"
    /\ tool_name = "get_mountain_info"
    /\ CloseConnection
    /\ \E mountain_results \in LookupResults :
        /\ fetchLog' = Append(fetchLog, mountain_results)
        /\ IF mountain_results = <<>> THEN
               /\ Return(MountainNotFound)
               /\ UNCHANGED <<stage, query, mountain_data>>
           ELSE
               /\ mountain_data' = <<_mountains_row_to_dict(mountain_results[1])>>
               /\ query' = RouteCountQuery(_mountains_row_to_dict(mountain_results[1]).name)
               /\ stage' = "count"
               /\ pc' = "connect"
               /\ UNCHANGED result
    /\ UNCHANGED <<outcomes, tool_name, rawArgs, arguments, storeLog, httpLog>>

\* _get_mountain_info after the route-count query returned (lines 639-667).
FetchRouteCount ==
    /\ pc = "fetch"
    /\ stage = "count"
    /\ CloseConnection
    /\ \E route_count_results \in {<<>>} \cup {<<I(n)>> : n \in 0..MaxRows} :
        LET route_count == IF route_count_results # <<>> THEN route_count_results[1] ELSE I(0)
        IN /\ fetchLog' = Append(fetchLog, route_count_results)
           /\ Return(Result("Mountain: ", mountain_data[1].name,
                            <<"info", mountain_data, route_count[2]>>, FALSE, "mountain-info"))
    /\ UNCHANGED <<outcomes, tool_name, rawArgs, arguments, stage, query, storeLog, httpLog,
                   mountain_data>>

\* The range check of _get_weather on the coordinates, with only the
\* latitude checked.
ValidCoordinates_latitude_only(lat, lon) == -90 <= lat[2] /\ lat[2] <= 90

\* -90 <= lat <= 90 and -180 <= lon <= 180 (line 725).
ValidCoordinates(lat, lon) ==
    /\ -90 <= lat[2] /\ lat[2] <= 90
    /\ -180 <= lon[2] /\ lon[2] <= 180

\* The result for a lookup without rows as it would be if _get_weather
\* reported a missing mountain the way _get_mountain_info does.
WeatherMountainNotFound_as_payload(mountain_name) ==
    Result("Error: No mountain found matching ", mountain_name,
           <<"weather", <<>>, FALSE>>, FALSE, "none")

\* The result of _get_weather when the lookup returns no row (lines 694-698).
WeatherMountainNotFound(mountain_name) ==
    Result("Error: No mountain found matching ", mountain_name, None, TRUE, "none")

\* _get_weather after the mountain lookup returned (lines 692-736): the
\* checks on the row and its coordinates, then the GET of the points URL.
FetchWeatherLookup ==
    /\ pc = "fetch"
    /\ stage = "lookup"
    /\ tool_name = "get_weather"
    /\ CloseConnection
    /\ \E mountain_results \in LookupResults :
        /\ fetchLog' = Append(fetchLog, mountain_results)
        /\ IF mountain_results = <<>> THEN
            /\ Return(WeatherMountainNotFound(arguments.mountain_name))
            /\ UNCHANGED <<mountain_data, httpLog>>
           ELSE
            LET data == _mountains_row_to_dict(mountain_results[1])
                lat == data.latitude
                lon == data.longitude
            IN /\ mountain_data' = <<data>>
               /\ IF lat = None \/ lon = None THEN
                      /\ Return(Result("Error: Mountain does not have GPS coordinates in the database: ",
                                       data.name, None, TRUE, "none"))
                      /\ UNCHANGED httpLog
                  ELSE IF ~ValidCoordinates(lat, lon) THEN
                      /\ Return(Result("Error: Invalid coordinates for mountain ",
                                       data.name, None, TRUE, "none"))
                      /\ UNCHANGED httpLog
                  ELSE
                      /\ httpLog' = Append(httpLog, [call |-> "points", lat |-> lat, lon |-> lon])
                      /\ pc' = "points"
                      /\ UNCHANGED result
    /\ UNCHANGED <<outcomes, tool_name, rawArgs, arguments, stage, query, storeLog>>

\* The first GET answered as it would be if the forecast were requested
\* whatever the answer was.
PointsResponse_forecast_regardless ==
    /\ pc = "points"
    /\ \E outcome \in {"ok", "404", "500", "network", "nokey", "badjson"} :
          outcomes' = Append(outcomes, <<"points", outcome>>)
    /\ httpLog' = Append(httpLog, [call |-> "forecast", lat |-> mountain_data[1].latitude,
                                   lon |-> mountain_data[1].longitude])
    /\ pc' = "forecast"
    /\ UNCHANGED <<fetchLog, tool_name, rawArgs, arguments, stage, query, storeLog, connOpen,
                   connLog, mountain_data, result>>

\* The outcomes of the first GET (lines 735-762): a response with a forecast
\* URL, a 404, another error status, a network failure, a JSON body without
\* properties.forecast, and a body that is not JSON.
PointsResponse ==
    /\ pc = "points"
    /\ \E outcome \in {"ok", "404", "500", "network", "nokey", "badjson"} :
      /\ outcomes' = Append(outcomes, <<"points", outcome>>)
      /\ CASE outcome = "ok" ->
                /\ httpLog' = Append(httpLog, [call |-> "forecast", lat |-> mountain_data[1].latitude,
                                               lon |-> mountain_data[1].longitude])
                /\ pc' = "forecast"
                /\ UNCHANGED result
          [] outcome = "404" ->
                /\ Return(Result("Error: No weather data available. The location may be outside the NWS coverage area.",
                                 mountain_data[1].name, None, TRUE, "none"))
                /\ UNCHANGED httpLog
          [] outcome = "500" ->
                /\ Return(Result("Error: Failed to get weather grid point: HTTP ", I(500),
                                 None, TRUE, "none"))
                /\ UNCHANGED httpLog
          [] outcome = "network" ->
                /\ Return(Result("Error: Network error connecting to NWS API: ",
                                 <<"exc", "connection refused">>, None, TRUE, "none"))
                /\ UNCHANGED httpLog
          [] outcome = "nokey" ->
                /\ Return(Result("Error: Invalid response from NWS API - forecast URL not found.",
                                 None, None, TRUE, "none"))
                /\ UNCHANGED httpLog
          [] outcome = "badjson" ->
                /\ Raise("Expecting value: line 1 column 1 (char 0)")
                /\ UNCHANGED httpLog
    /\ UNCHANGED <<fetchLog, tool_name, rawArgs, arguments, stage, query, storeLog, connOpen,
                   connLog, mountain_data>>

\* A forecast period, named by its position in the response.
Period(i) == [name |-> I(i), temperature |-> I(30 + i)]

\* The current_conditions dict built from periods[0]: the period's readings
\* without its name; <<>> stands for the empty dict.
CurrentConditions(periods) ==
    IF Len(periods) > 0 THEN <<[temperature |-> periods[1].temperature]>> ELSE <<>>

\* The forecast entry built from one period: its name and its readings.
ForecastEntry(period) == [name |-> period.name, temperature |-> period.temperature]

\* weather_data as it would be if the forecast were sliced from the first
\* period on.
WeatherData_from_first(periods) ==
    [mountain_name |-> mountain_data[1].name,
     location |-> [latitude |-> mountain_data[1].latitude,
                   longitude |-> mountain_data[1].longitude],
     current_conditions |-> CurrentConditions(periods),
     forecast |-> [k \in 1..Min(Len(periods), FORECAST_PERIODS) |-> ForecastEntry(periods[k])]]

\* weather_data for the periods of a forecast response (lines 803-834):
\* the forecast is built from periods[1:FORECAST_PERIODS + 1].
WeatherData(periods) ==
    [mountain_name |-> mountain_data[1].name,
     location |-> [latitude |-> mountain_data[1].latitude,
                   longitude |-> mountain_data[1].longitude],
     current_conditions |-> CurrentConditions(periods),
     forecast |-> [k \in 1..(Min(Len(periods), FORECAST_PERIODS + 1) - 1) |->
                       ForecastEntry(periods[k + 1])]]

\* The outcomes of the second GET and the shaping of its periods
\* (lines 765-885).
ForecastResponse ==
    /\ pc = "forecast"
    /\ \E outcome \in {"ok", "404", "500", "network", "nokey", "badjson"} :
      \* a response that is answered carries n periods, recorded with the answer
      \E n \in (IF outcome = "ok" THEN 0..(FORECAST_PERIODS + MaxPeriods) ELSE {0}) :
      /\ outcomes' = Append(outcomes, IF outcome = "ok" THEN <<"forecast", outcome, n>>
                                      ELSE <<"forecast", outcome>>)
      /\ CASE outcome = "ok" ->
                LET periods == [i \in 1..n |-> Period(i)]
                IN IF n = 0 THEN
                       Return(Result("No forecast periods available for ",
                                     mountain_data[1].name,
                                     <<"weather", WeatherData(periods), FALSE>>, FALSE, "none"))
                   ELSE
                       Return(Result("Weather forecast for ", mountain_data[1].name,
                                     <<"weather", WeatherData(periods), TRUE>>, FALSE, "none"))
          [] outcome \in {"404", "500"} ->
                Return(Result("Error: Failed to get weather forecast: HTTP ",
                              I(IF outcome = "404" THEN 404 ELSE 500), None, TRUE, "none"))
          [] outcome = "network" ->
                Return(Result("Error: Network error getting forecast: ",
                              <<"exc", "connection reset">>, None, TRUE, "none"))
          [] outcome = "nokey" ->
                Return(Result("Error: Invalid forecast response - periods not found.",
                              None, None, TRUE, "none"))
          [] outcome = "badjson" ->
                Raise("Expecting value: line 1 column 1 (char 0)")
    /\ UNCHANGED <<fetchLog, tool_name, rawArgs, arguments, stage, query, storeLog, connOpen,
                   connLog, httpLog, mountain_data>>

\* The request is over; the stateless server takes the next one.
NextRequest ==
    /\ pc = "done"
    /\ pc' = "idle"
    /\ tool_name' = ""
    /\ rawArgs' = <<>>
    /\ arguments' = <<>>
    /\ stage' = "none"
    /\ query' = NoQuery
    /\ storeLog' = <<>>
    /\ fetchLog' = <<>>
    /\ connLog' = <<>>
    /\ httpLog' = <<>>
    /\ mountain_data' = <<>>
    /\ result' = NoResult
    /\ outcomes' = <<>>
    /\ UNCHANGED connOpen

Next ==
    \/ CallTool
    \/ Connect
    \/ ConnectFail
    \/ Execute
    \/ ExecuteFail
    \/ FetchFail
    \/ FetchSearchRows
    \/ FetchMountainLookup
    \/ FetchRouteCount
    \/ FetchWeatherLookup
    \/ PointsResponse
    \/ ForecastResponse
    \/ NextRequest

Spec == Init /\ [][Next]_vars

\* The same program with a store and a weather service that always answer
\* (with rows, a response or a failure): no awaited call hangs forever.
SpecLive == Init /\ [][Next]_vars /\ WF_vars(Next)

(***************************************************************************)
(* The handlers called directly with an arguments dict, as TOOL_HANDLERS   *)
(* exposes them: no input model stands between the caller and the builder, *)
(* so limit is any integer or None and route_difficulty may be a string.   *)
(***************************************************************************)
DirectLimits == {None, I(-1), I(0), I(1), I(1000), I(1001), I(5000)}

\* The dicts model_dump yields for the argument objects that pass validation.
ValidatedArgs(tool) ==
    {model_validate(tool, r) : r \in {x \in RequestsOf(tool) : ValidationErrors(tool, x) = {}}}

MountainsDirectArgs ==
    {[a EXCEPT !.limit = l] : a \in ValidatedArgs("get_mountains"), l \in DirectLimits}

RoutesDirectArgs ==
    {[a EXCEPT !.limit = l] : a \in ValidatedArgs("get_routes"), l \in DirectLimits}
    \cup {[a EXCEPT !.route_difficulty = S("Class 3")] : a \in ValidatedArgs("get_routes")}

DirectArgs(tool) ==
    CASE tool = "get_mountains" -> MountainsDirectArgs
      [] tool = "get_routes" -> RoutesDirectArgs
      [] OTHER -> ValidatedArgs(tool)

\* handler(arguments) for a handler of TOOL_HANDLERS.
DirectCall ==
    /\ pc = "idle"
    /\ \E tool \in TOOL_HANDLERS :
       \E args \in DirectArgs(tool) :
        /\ tool_name' = tool
        /\ UNCHANGED rawArgs
        /\ StartHandler(tool, args)

NextDirect ==
    \/ DirectCall
    \/ Connect
    \/ ConnectFail
    \/ Execute
    \/ ExecuteFail
    \/ FetchFail
    \/ FetchSearchRows
    \/ FetchMountainLookup
    \/ FetchRouteCount
    \/ FetchWeatherLookup
    \/ PointsResponse
    \/ ForecastResponse
    \/ NextRequest

SpecDirect == Init /\ [][NextDirect]_vars

(***************************************************************************)
(* Properties.                                                             *)
(***************************************************************************)
Range(seq) == {seq[i] : i \in 1..Len(seq)}
Count(seq, tok) == Cardinality({i \in 1..Len(seq) : seq[i] = tok})
IndexOf(seq, tok) == CHOOSE i \in 1..Len(seq) : seq[i] = tok
IsSearch == tool_name \in {"get_mountains", "get_routes"}
HandlerEntered == stage # "none"
IsValidationError ==
    pc = "done" /\ result.isError /\ result.text.msg = "Input validation error: "

\* The strings a caller-supplied value consists of.
StringsOf(v) ==
    IF Tag(v) = "str" THEN {v[2]}
    ELSE IF Tag(v) = "list" THEN {v[2][i][2] : i \in {j \in 1..Len(v[2]) : Tag(v[2][j]) = "str"}}
    ELSE {}

\* Which outcome of the rank dispatch a validated rank_filter selects.
RankKind(v) ==
    IF ~Truthy(v) \/ v = S("exclude_unranked") THEN "exclude_unranked"
    ELSE IF v[2] \in {"only_unranked", "include_all"} THEN v[2]
    ELSE IF v[2] \in DOMAIN IntLiterals THEN "number"
    ELSE "dropped"

\* What of a validated field two requests must share to supply "the same
\* filter": the kind of rank filter, the length of the difficulty list, the
\* ordering, and for every other field whether a value is supplied at all
\* (None and the empty string supply none).
FilterShape(f, v) ==
    CASE f = "rank_filter" -> <<"kind", RankKind(v)>>
      [] f = "route_difficulty" -> <<"length", IF Tag(v) = "list" THEN Len(v[2]) ELSE 0>>
      [] f \in {"order_by", "order_direction"} -> v
      [] OTHER -> <<"supplied", v # None /\ v # S("")>>

SameFilters(tool, a, b) ==
    \A f \in Fields(tool) : FilterShape(f, a[f]) = FilterShape(f, b[f])

\* C1: in every query get_mountains or get_routes sends to the store, no
\* string the caller supplied as a filter value is part of the query text,
\* and the text is the one any other accepted request with the same filters
\* (same kind of rank filter, same difficulty-list length, same ordering,
\* the same fields supplied with a non-empty value) but another value in one
\* field would produce: values reach the store in the parameter list only.
C1_ValuesOnlyBound ==
    \A i \in 1..Len(storeLog) :
        IsSearch =>
            /\ \A f \in Fields(tool_name) \ {"order_by", "order_direction"} :
                 \A str \in StringsOf(rawArgs[f]) : str \notin Range(storeLog[i].text)
            /\ \A c \in Candidates(tool_name) :
                 LET twin == [rawArgs EXCEPT ![c[1]] = c[2]]
                 IN (/\ ValidationErrors(tool_name, twin) = {}
                     /\ SameFilters(tool_name, model_validate(tool_name, twin), arguments))
                    => FirstQuery(tool_name, model_validate(tool_name, twin)).text
                         = storeLog[i].text

\* A mountain search whose name filter is an injection attempt has reached
\* the store with the attempt as a bound pattern.
C1_Witness ==
    /\ tool_name = "get_mountains"
    /\ Len(storeLog) = 1
    /\ rawArgs.name_search = S("x' OR '1'='1")
    /\ Like(S("x' OR '1'='1")) \in Range(storeLog[1].params)

ValidOrderBy(tool) ==
    IF tool = "get_mountains" THEN {"elevation", "rank"}
    ELSE {"roundtrip_distance", "elevation_gain", "route_difficulty", "mountain_name"}
DefaultOrderBy(tool) == IF tool = "get_mountains" THEN "elevation" ELSE "mountain_name"
DefaultDirection(tool) == IF tool = "get_mountains" THEN "DESC" ELSE "ASC"

\* C2: every query get_mountains or get_routes sends to the store has one
\* ORDER BY clause whose field is in the kind's fixed set and whose direction
\* is ASC or DESC; an order_by string outside the set, and an order_direction
\* string that is outside {ASC, DESC} after case normalisation, is replaced
\* by the kind's default and is not part of the query text.
C2_OrderByFromFixedSet ==
    \A i \in 1..Len(storeLog) :
        IsSearch =>
            LET t == storeLog[i].text
                k == IndexOf(t, "ORDER BY")
                by == rawArgs.order_by
                dir == rawArgs.order_direction
            IN /\ Count(t, "ORDER BY") = 1
               /\ t[k + 1] \in ValidOrderBy(tool_name)
               /\ t[k + 2] \in {"ASC", "DESC"}
               /\ (Tag(by) = "str" /\ by[2] \notin ValidOrderBy(tool_name))
                    => (t[k + 1] = DefaultOrderBy(tool_name) /\ by[2] \notin Range(t))
               /\ (Tag(dir) = "str" /\ Upper(dir[2]) \notin {"ASC", "DESC"})
                    => (t[k + 2] = DefaultDirection(tool_name) /\ dir[2] \notin Range(t))

\* A mountain search with an order_by outside the set has reached the store.
C2_Witness ==
    /\ tool_name = "get_mountains"
    /\ Len(storeLog) = 1
    /\ rawArgs.order_by = S("rank; DROP TABLE mountains")
    /\ rawArgs.order_direction = S("sideways")

\* The rank predicate of a mountain query: <<"none">>, <<"is not null">>,
\* <<"is null">>, or <<"equals", bound value>>.
RankPredicate(q) ==
    LET toks == SelectSeq(q.text, LAMBDA x : x \in {"AND rank IS NOT NULL", "AND rank IS NULL",
                                                     "AND rank ="})
    IN IF toks = <<>> THEN <<"none">>
       ELSE IF toks = <<"AND rank IS NOT NULL">> THEN <<"is not null">>
       ELSE IF toks = <<"AND rank IS NULL">> THEN <<"is null">>
       ELSE IF toks = <<"AND rank =">> /\ q.text[IndexOf(q.text, "AND rank =") + 1] = "%s"
            THEN <<"equals", q.params[1]>>
       ELSE <<"malformed">>

\* The rank predicate the dispatch rule gives for the caller's rank_filter,
\* where emptyIsAbsent says whether "" counts as absent.
ExpectedRankPredicate(r, emptyIsAbsent) ==
    IF r \in {Missing, None, S("exclude_unranked")} \/ (emptyIsAbsent /\ r = S(""))
    THEN <<"is not null">>
    ELSE IF r = S("only_unranked") THEN <<"is null">>
    ELSE IF r = S("include_all") THEN <<"none">>
    ELSE IF r[2] \in DOMAIN IntLiterals THEN <<"equals", I(IntLiterals[r[2]])>>
    ELSE <<"none">>

\* C3 as stated: rank_filter absent or "exclude_unranked" gives "rank IS NOT
\* NULL", "only_unranked" gives "rank IS NULL", "include_all" gives no rank
\* predicate, any other value that parses as an integer n gives equality
\* with n bound, and any other value gives no rank predicate.
C3_Original ==
    \A i \in 1..Len(storeLog) :
        tool_name = "get_mountains" =>
            RankPredicate(storeLog[i]) = ExpectedRankPredicate(rawArgs.rank_filter, FALSE)

\* C3, amended: the same dispatch, with the empty string counted as absent
\* (it gives "rank IS NOT NULL", not "no rank predicate").
C3_RankDispatch ==
    \A i \in 1..Len(storeLog) :
        tool_name = "get_mountains" =>
            RankPredicate(storeLog[i]) = ExpectedRankPredicate(rawArgs.rank_filter, TRUE)

\* A mountain search by rank number has reached the store with the number bound.
C3_Witness ==
    /\ tool_name = "get_mountains"
    /\ Len(storeLog) = 1
    /\ rawArgs.rank_filter = S("2")
    /\ storeLog[1].params[1] = I(2)

\* No field other than limit fails validation.
OnlyLimitInQuestion == ValidationErrors(tool_name, rawArgs) \subseteq {"limit"}

\* C4 as stated: an omitted limit becomes 10, a limit below 1 becomes 1, a
\* limit above 1000 becomes 1000, and in each case the handler is entered.
C4_Original ==
    (pc # "idle" /\ IsSearch /\ OnlyLimitInQuestion) =>
        /\ rawArgs.limit = Missing => (HandlerEntered /\ arguments.limit = I(10))
        /\ (Tag(rawArgs.limit) = "int" /\ rawArgs.limit[2] < 1)
             => (HandlerEntered /\ arguments.limit = I(1))
        /\ (Tag(rawArgs.limit) = "int" /\ rawArgs.limit[2] > 1000)
             => (HandlerEntered /\ arguments.limit = I(1000))

\* C4, amended: an omitted limit becomes 10 and a limit in [1, 1000] is kept,
\* the handler being entered; a limit below 1 or above 1000 ends the request
\* with a validation error naming limit, and the handler is never entered.
C4_LimitDefaultAndRange ==
    (pc # "idle" /\ IsSearch /\ OnlyLimitInQuestion) =>
        /\ rawArgs.limit = Missing => (HandlerEntered /\ arguments.limit = I(10))
        /\ (Tag(rawArgs.limit) = "int" /\ rawArgs.limit[2] >= 1 /\ rawArgs.limit[2] <= 1000)
             => (HandlerEntered /\ arguments.limit = rawArgs.limit)
        /\ (Tag(rawArgs.limit) = "int" /\ (rawArgs.limit[2] < 1 \/ rawArgs.limit[2] > 1000))
             => /\ IsValidationError
                /\ result.text.detail = <<"fields", {"limit"}>>
                /\ ~HandlerEntered
                /\ storeLog = <<>>

\* A route search with limit 1001 has ended in a validation error.
C4_Witness ==
    /\ tool_name = "get_routes"
    /\ rawArgs.limit = I(1001)
    /\ IsValidationError

\* C5: a search handler given limit L builds a query that ends with one
\* LIMIT clause bound to min(L, 1000) when L > 0, and has no LIMIT clause
\* when L <= 0.
C5_RowCap ==
    (IsSearch /\ stage = "search" /\ Tag(arguments.limit) = "int") =>
        LET lim == arguments.limit[2]
            t == query.text
            n == Len(t)
        IN IF lim > 0 THEN
               /\ Count(t, "LIMIT") = 1
               /\ t[n - 2] = "LIMIT" /\ t[n - 1] = "%s" /\ t[n] = ";"
               /\ query.params[Len(query.params)] = I(IF lim < 1000 THEN lim ELSE 1000)
           ELSE "LIMIT" \notin Range(t)

\* Both cases have happened: a query built for limit 5000 is at the store.
C5_Witness ==
    /\ tool_name = "get_routes"
    /\ arguments.limit = I(5000)
    /\ Len(storeLog) = 1
    /\ storeLog[1].params[Len(storeLog[1].params)] = I(1000)

\* The request never reached a handler or anything outside the process.
NothingIssued ==
    /\ ~HandlerEntered
    /\ storeLog = <<>>
    /\ connLog = <<>>
    /\ httpLog = <<>>

\* C6: a call to one of the four tools whose argument object holds a field
\* outside the tool's field list ends in a validation error result and
\* reaches neither the query builder nor the store.
C6_UnknownFieldRejected ==
    (pc # "idle" /\ tool_name \in TOOL_HANDLERS /\ rawArgs[UnknownField] # Missing) =>
        /\ IsValidationError
        /\ NothingIssued

\* The bound values of the difficulty predicate of a route query.
DifficultyParams(q) ==
    LET t == q.text
        before(k) == Cardinality({j \in 1..(k - 1) : t[j] = "%s"})
    IN IF "AND route_difficulty IN (" \in Range(t) THEN
           LET k == IndexOf(t, "AND route_difficulty IN (")
               close == CHOOSE j \in (k + 1)..Len(t) :
                            t[j] = ")" /\ \A h \in (k + 1)..(j - 1) : t[h] # ")"
               n == Cardinality({j \in k..close : t[j] = "%s"})
           IN SubSeq(q.params, before(k) + 1, before(k) + n)
       ELSE IF "AND route_difficulty =" \in Range(t) THEN
           LET k == IndexOf(t, "AND route_difficulty =")
           IN <<q.params[before(k) + 1]>>
       ELSE <<>>

\* C7: a route search is accepted whether route_difficulty is one value or a
\* sequence of values (no other field being at fault), one value gives an
\* equality predicate with the value bound, and every difficulty value that
\* reaches the store belongs to the fixed enumeration.
C7_DifficultySingleOrListInEnum ==
    (pc # "idle" /\ tool_name = "get_routes") =>
        /\ (/\ Tag(rawArgs.route_difficulty) \in {"str", "list"}
            /\ ValidationErrors(tool_name, rawArgs) \subseteq {"route_difficulty"})
             => HandlerEntered
        /\ (Tag(rawArgs.route_difficulty) = "str" /\ rawArgs.route_difficulty # S(""))
             => \A i \in 1..Len(storeLog) :
                    /\ Count(storeLog[i].text, "AND route_difficulty =") = 1
                    /\ DifficultyParams(storeLog[i]) = <<rawArgs.route_difficulty>>
        /\ \A i \in 1..Len(storeLog) :
               \A d \in Range(DifficultyParams(storeLog[i])) : d[2] \in DifficultyEnum

\* C8: a route search whose route_difficulty is a sequence of n >= 1 values
\* sends a query with exactly one IN predicate on route_difficulty holding n
\* placeholders, bound to those n values in the caller's order; an absent,
\* null or empty route_difficulty adds no difficulty predicate and no
\* parameter (the query has as many parameters as placeholders, none of
\* them for a difficulty).
C8_DifficultyInPredicate ==
    \A i \in 1..Len(storeLog) :
        tool_name = "get_routes" =>
            LET t == storeLog[i].text
                d == rawArgs.route_difficulty
            IN /\ (Tag(d) = "list" /\ Len(d[2]) >= 1) =>
                    /\ Count(t, "AND route_difficulty IN (") = 1
                    /\ Count(t, "AND route_difficulty =") = 0
                    /\ LET k == IndexOf(t, "AND route_difficulty IN (")
                           n == Len(d[2])
                       IN /\ k + 2 * n <= Len(t)
                          /\ \A j \in 1..n : t[k + 2 * j - 1] = "%s"
                          /\ \A j \in 1..(n - 1) : t[k + 2 * j] = ","
                          /\ t[k + 2 * n] = ")"
                    /\ DifficultyParams(storeLog[i]) = d[2]
               /\ (d \in {Missing, None, L(<<>>)}) =>
                    /\ Count(t, "AND route_difficulty IN (") = 0
                    /\ Count(t, "AND route_difficulty =") = 0
                    /\ Len(storeLog[i].params) = Count(t, "%s")
                    /\ Len(storeLog[i].params) = Len(FirstQuery(tool_name,
                           [arguments EXCEPT !.route_difficulty = None]).params)

\* A route search for two difficulties has reached the store.
C8_Witness ==
    /\ tool_name = "get_routes"
    /\ Len(storeLog) = 1
    /\ rawArgs.route_difficulty = DifficultyList(2)
    /\ DifficultyParams(storeLog[1]) = DifficultyList(2)[2]

\* Some supplied field holds a value its annotation does not admit.
WrongTyped(tool, raw) ==
    \E f \in Fields(tool) : raw[f] # Missing /\ Coerce(InputModel(tool)[f], raw[f]) = Err

C10_NotFoundIsNotAnError ==
    (tool_name = "get_mountain_info" /\ Len(fetchLog) >= 1 /\ fetchLog[1] = <<>>) =>
        /\ pc = "done"
        /\ ~result.isError
        /\ result.structuredContent = <<"info", <<>>, 0>>
        /\ Len(storeLog) = 1
        /\ stage = "lookup"

\* A mountain-info lookup has come back without a row.
C10_Witness ==
    /\ tool_name = "get_mountain_info"
    /\ fetchLog = <<<<>>>>
    /\ pc = "done"
    /\ storeLog # <<>>

\* The stored coordinates of the mountain the weather lookup resolved.
StoredLatitude == fetchLog[1][1].latitude
StoredLongitude == fetchLog[1][1].longitude
OutOfRange(lat, lon) ==
    /\ Tag(lat) = "int" /\ Tag(lon) = "int"
    /\ (lat[2] < -90 \/ lat[2] > 90 \/ lon[2] < -180 \/ lon[2] > 180)

\* C11: in get_weather, when the resolved mountain's stored latitude is
\* outside [-90, 90] or its longitude outside [-180, 180], the request ends
\* with the coordinate error and no HTTP call is made for it; and whenever
\* an HTTP call has been made, both stored coordinates are in range.
C11_CoordinateCheckBeforeHttp ==
    (tool_name = "get_weather" /\ Len(fetchLog) = 1 /\ fetchLog[1] # <<>>) =>
        /\ OutOfRange(StoredLatitude, StoredLongitude) =>
              /\ pc = "done"
              /\ result.isError
              /\ result.text = [msg |-> "Error: Invalid coordinates for mountain ",
                                detail |-> fetchLog[1][1].mountain_name]
              /\ httpLog = <<>>
              /\ outcomes = <<>>
        /\ httpLog # <<>> =>
              /\ Tag(StoredLatitude) = "int" /\ Tag(StoredLongitude) = "int"
              /\ -90 <= StoredLatitude[2] /\ StoredLatitude[2] <= 90
              /\ -180 <= StoredLongitude[2] /\ StoredLongitude[2] <= 180

\* The weather lookup resolved a mountain whose longitude alone is out of
\* range and the request has ended with the coordinate error.
C11_Witness ==
    /\ tool_name = "get_weather"
    /\ Len(fetchLog) = 1 /\ fetchLog[1] # <<>>
    /\ StoredLatitude = I(39) /\ StoredLongitude = I(-181)
    /\ pc = "done" /\ result.isError /\ httpLog = <<>>

\* C12: every store connection a query acquires is released on every exit
\* path of the query: a connection is open only while the query's execute or
\* fetch is pending, every "open" of the request is followed by its "close"
\* before the next "open", and once the request has its result - after
\* success, after a query-execution failure and after a row-fetch failure
\* alike - no connection is open.
C12_ConnectionReleased ==
    /\ connOpen \in {0, 1}
    /\ connOpen = 1 <=> pc \in {"execute", "fetch"}
    /\ \A i \in 1..Len(connLog) : connLog[i] = IF i % 2 = 1 THEN "open" ELSE "close"
    /\ pc = "done" =>
          /\ connOpen = 0
          /\ Len(connLog) % 2 = 0

\* A mountain-info request whose second query failed at the row fetch has
\* its result, both connections having been opened and closed.
C12_Witness ==
    /\ tool_name = "get_mountain_info"
    /\ pc = "done"
    /\ outcomes = << <<"store", "fetch failed">> >>
    /\ connLog = <<"open", "close", "open", "close">>
    /\ connOpen = 0

\* The failure kind of an outcome of one of the two HTTP calls.
FailureKind(call, outcome) ==
    CASE outcome = "404" /\ call = "points" -> "region not covered"
      [] outcome \in {"404", "500"} -> "status"
      [] outcome = "network" -> "network"
      [] OTHER -> "malformed"

\* The messages that identify each failure kind of each call.
KindMessages(call, kind) ==
    CASE kind = "region not covered" ->
            {"Error: No weather data available. The location may be outside the NWS coverage area."}
      [] kind = "status" ->
            {IF call = "points" THEN "Error: Failed to get weather grid point: HTTP "
             ELSE "Error: Failed to get weather forecast: HTTP "}
      [] kind = "network" ->
            {IF call = "points" THEN "Error: Network error connecting to NWS API: "
             ELSE "Error: Network error getting forecast: "}
      [] kind = "malformed" ->
            {IF call = "points" THEN "Error: Invalid response from NWS API - forecast URL not found."
             ELSE "Error: Invalid forecast response - periods not found."}

\* C13: in get_weather every failure of either HTTP call ends the request
\* with an error result whose message is the one of its failure kind (region
\* not covered, HTTP status with the status code, network failure, malformed
\* response) and never the handler's generic failure message.
C13_UpstreamFailureMessages ==
    \A i \in 1..Len(outcomes) :
        (outcomes[i][1] \in {"points", "forecast"} /\ outcomes[i][2] # "ok") =>
            LET call == outcomes[i][1]
                kind == FailureKind(call, outcomes[i][2])
            IN /\ pc = "done"
               /\ result.isError
               /\ result.text.msg \in KindMessages(call, kind)
               /\ result.text.msg # FailMsg("get_weather")
               /\ kind = "status" => result.text.detail = I(IF outcomes[i][2] = "404" THEN 404 ELSE 500)

\* C14: a call whose tool name is not one of the four tools ends at once
\* with an error result whose text names the tool; whatever its arguments,
\* no validation, handler, store connection, store query or HTTP call
\* happens for it.
C14_UnknownToolRejected ==
    (pc # "idle" /\ tool_name \notin {"get_mountains", "get_routes", "get_mountain_info",
                                     "get_weather"}) =>
        /\ pc = "done"
        /\ result.isError
        /\ result.text = [msg |-> "Unknown tool: ", detail |-> S(tool_name)]
        /\ result.structuredContent = None
        /\ NothingIssued
        /\ arguments = <<>>
        /\ outcomes = <<>>

\* An unknown tool called with arguments no input model would accept has
\* been answered.
C14_Witness ==
    /\ tool_name = UnknownTool
    /\ pc = "done"
    /\ rawArgs.mountain_name = Obj
    /\ result.text.detail = S(UnknownTool)

\* The request failed: the tool is unknown, the arguments did not validate,
\* the store or the weather service failed, or get_weather found no mountain
\* or no usable coordinates.
Failed ==
    \/ tool_name \notin TOOL_HANDLERS
    \/ (tool_name \in TOOL_HANDLERS /\ ValidationErrors(tool_name, rawArgs) # {})
    \/ \E i \in 1..Len(outcomes) : outcomes[i][2] # "ok"
    \/ /\ tool_name = "get_weather"
       /\ Len(fetchLog) >= 1
       /\ \/ fetchLog[1] = <<>>
          \/ ~Truthy(StoredLatitude) \/ ~Truthy(StoredLongitude)
          \/ OutOfRange(StoredLatitude, StoredLongitude)

\* A request that is over has a result of the one shape, flagged as an error
\* exactly when the request failed; a request that is not over has none.
ResultShape ==
    /\ pc = "done" <=> result.text.msg # ""
    /\ pc = "done" =>
          /\ DOMAIN result = {"text", "structuredContent", "isError", "meta"}
          /\ DOMAIN result.text = {"msg", "detail"}
          /\ result.isError \in BOOLEAN
          /\ result.isError <=> Failed

\* C15: every tool call, whatever its outcome, yields exactly one result of
\* the same shape (text, optional structured payload, error flag): no call
\* ends without a result, a result once returned is not replaced, and the
\* error flag is set exactly on the failure outcomes.
C15_OneResultOfOneShape ==
    /\ []ResultShape
    /\ [][pc = "done" => (pc' = "idle" /\ result' = NoResult)]_vars
    /\ (pc # "idle") ~> (pc = "done")

\* A call whose handler raised inside (an undecodable forecast body) has
\* ended with an error result.
C15_Witness ==
    /\ pc = "done"
    /\ Len(outcomes) = 2
    /\ outcomes[2] = <<"forecast", "badjson">>
    /\ result.isError
    /\ result.text.msg = FailMsg("get_weather")

\* C16: the structured record mapped from a route row has the key
\* snow_difficulty if and only if the row's snow flag is true, and then
\* with the column's value (null included); with the flag false or null the
\* key is absent, whatever the snow_difficulty column holds.
C16_SnowDifficultyKey ==
    (tool_name = "get_routes" /\ pc = "done" /\ Len(fetchLog) = 1) =>
        /\ Len(result.structuredContent[2]) = Len(fetchLog[1])
        /\ \A i \in 1..Len(fetchLog[1]) :
              LET row == fetchLog[1][i]
                  record == result.structuredContent[2][i]
              IN /\ "snow_difficulty" \in DOMAIN record <=> row.snow = B(TRUE)
                 /\ row.snow = B(TRUE) => record.snow_difficulty = row.snow_difficulty

\* A route search has returned a row whose snow flag is null and one whose
\* flag is false, both with a snow difficulty in the column.
C16_Witness ==
    /\ tool_name = "get_routes"
    /\ pc = "done"
    /\ Len(fetchLog) = 1
    /\ Len(fetchLog[1]) = 2
    /\ fetchLog[1][1].snow = B(FALSE) /\ fetchLog[1][1].snow_difficulty # None
    /\ fetchLog[1][2].snow = None /\ fetchLog[1][2].snow_difficulty # None
    /\ "snow_difficulty" \notin DOMAIN result.structuredContent[2][2]

\* The calls issued so far and the answers received so far, by name.
CallsIssued == [i \in 1..Len(httpLog) |-> httpLog[i].call]
HttpAnswers == SelectSeq(outcomes, LAMBDA o : o[1] \in {"points", "forecast"})

\* C17: in get_weather the two HTTP calls are strictly sequential: the
\* points call is the first, the forecast call is issued only once the
\* points call has been answered with a forecast URL, after a points call
\* that failed in any way no forecast call is issued, and at no time are two
\* calls awaiting their answer.
C17_HttpCallsSequential ==
    /\ CallsIssued \in {<<>>, <<"points">>, <<"points", "forecast">>}
    /\ Len(httpLog) >= 2 => (HttpAnswers # <<>> /\ HttpAnswers[1] = <<"points", "ok">>)
    /\ (HttpAnswers # <<>> /\ HttpAnswers[1][2] # "ok") =>
          (CallsIssued = <<"points">> /\ pc = "done")
    /\ Len(httpLog) - Len(HttpAnswers) \in {0, 1}
    /\ Len(httpLog) - Len(HttpAnswers) = 1 <=> pc \in {"points", "forecast"}
    /\ httpLog # <<>> => tool_name = "get_weather"

\* The forecast call is awaiting its answer, the points call having been
\* answered with a forecast URL.
C17_Witness ==
    /\ pc = "forecast"
    /\ CallsIssued = <<"points", "forecast">>
    /\ HttpAnswers = << <<"points", "ok">> >>

\* The store queries attempted for the request: the connections opened and
\* the connects that failed.
StoreAttempts ==
    Count(connLog, "open") + Count(outcomes, <<"store", "connect failed">>)
StoreQueriesAllowed == IF tool_name = "get_mountain_info" THEN 2 ELSE 1
HttpCallsAllowed == IF tool_name = "get_weather" THEN 2 ELSE 0
FailureOutcomes == {i \in 1..Len(outcomes) : outcomes[i][2] # "ok"}

\* C18: nothing external is retried: a request attempts at most 1 store
\* query (2 for get_mountain_info, the lookup and the count, never the same
\* query twice), get_weather at most 2 HTTP calls, one to each endpoint, and
\* the first failure of a store query or HTTP call is the last thing the
\* request does before its result.
C18_NoRetries ==
    tool_name \in TOOL_HANDLERS =>
        /\ StoreAttempts <= StoreQueriesAllowed
        /\ Len(storeLog) <= StoreQueriesAllowed
        /\ Len(storeLog) = 2 => storeLog[1].text # storeLog[2].text
        /\ Len(httpLog) <= HttpCallsAllowed
        /\ Count(CallsIssued, "points") <= 1
        /\ Count(CallsIssued, "forecast") <= 1
        /\ Cardinality(FailureOutcomes) <= 1
        /\ \A i \in FailureOutcomes :
              /\ i = Len(outcomes)
              /\ pc = "done"
              /\ result.isError

\* The lookup of a mountain-info request succeeded, the connect for its
\* count query failed, and the request is over after two attempts.
C18_Witness ==
    /\ tool_name = "get_mountain_info"
    /\ pc = "done"
    /\ StoreAttempts = 2
    /\ Len(storeLog) = 1
    /\ outcomes = << <<"store", "connect failed">> >>

\* The descriptions a failure of the store carries.
StoreFailureDescriptions(failure) ==
    CASE failure = "connect failed" ->
            {"Environment variable 'user' is required but not set",
             "could not connect to server"}
      [] failure = "execute failed" -> {"query execution failed"}
      [] failure = "fetch failed" -> {"row fetch failed"}

\* C19: when a store connect, query execution or row fetch fails in any of
\* the four handlers, for the first or the second query, the request ends
\* with an error result whose text is the handler's failure message with the
\* failure's description, without structured payload, and every connection
\* the request opened has been closed.
C19_StoreFailureResult ==
    \A i \in 1..Len(outcomes) :
        outcomes[i][1] = "store" =>
            /\ pc = "done"
            /\ result.isError
            /\ result.text.msg = FailMsg(tool_name)
            /\ result.text.detail[1] = "exc"
            /\ result.text.detail[2] \in StoreFailureDescriptions(outcomes[i][2])
            /\ result.structuredContent = None
            /\ connOpen = 0
            /\ Count(connLog, "open") = Count(connLog, "close")

\* The route-count query of a mountain-info request failed in execution and
\* the request is over.
C19_Witness ==
    /\ tool_name = "get_mountain_info"
    /\ pc = "done"
    /\ Len(storeLog) = 2
    /\ outcomes = << <<"store", "execute failed">> >>
    /\ connLog = <<"open", "close", "open", "close">>

\* The optional filters of each search (the rank filter, a dispatch of its
\* own, is not one of them) and the token that opens the predicate of each.
FilterTokens(tool) ==
    IF tool = "get_mountains" THEN
        [min_elevation |-> "elevation >=", max_elevation |-> "elevation <=",
         name_search |-> "mountain_name", mountain_range |-> "mountain_range",
         county |-> "county", nearby_towns |-> "nearby_towns"]
    ELSE
        [mountain_name |-> "mountain_name", route_name |-> "route_name",
         range |-> "\"range\"", route_difficulty |-> "AND route_difficulty IN (",
         snow |-> "AND snow =", standard |-> "AND standard =",
         min_distance |-> "AND roundtrip_distance >=",
         max_distance |-> "AND roundtrip_distance <=",
         min_elevation_gain |-> "AND elevation_gain >=",
         max_elevation_gain |-> "AND elevation_gain <="]

\* A filter value is present: not null, not the empty string, not the empty list.
Present(v) == v # None /\ v # S("") /\ v # L(<<>>)

\* The tokens of the query text between WHERE 1=1 and ORDER BY.
WhereTokens(t) == SubSeq(t, 4, IndexOf(t, "ORDER BY") - 1)

\* The number of filter predicates of a query text: the "AND"s of the
\* helper-built predicates and the clauses appended directly.
FilterPredicateCount(t) ==
    Cardinality({j \in 1..Len(WhereTokens(t)) :
        WhereTokens(t)[j] \in {"AND", "AND route_difficulty IN (", "AND route_difficulty =",
                               "AND snow =", "AND standard =", "AND roundtrip_distance >=",
                               "AND roundtrip_distance <=", "AND elevation_gain >=",
                               "AND elevation_gain <="}})

\* C20: in the mountain and route queries each optional filter adds exactly
\* one predicate when its value is present (not null, not empty) and none
\* otherwise, so there are as many filter predicates as present filters; a
\* present 0 for a min/max bound and a present false for a flag add their
\* predicate with that value bound, and a min and a max bound each add
\* theirs whether or not the other is present.
C20_OnePredicatePerPresentFilter ==
    (IsSearch /\ stage = "search") =>
        LET t == query.text
            tokens == FilterTokens(tool_name)
            present == {f \in DOMAIN tokens : Present(arguments[f])}
        IN /\ FilterPredicateCount(t) = Cardinality(present)
           /\ \A f \in DOMAIN tokens :
                 /\ Count(WhereTokens(t), tokens[f]) = IF f \in present THEN 1 ELSE 0
                 /\ (f \in present /\ Tag(arguments[f]) \in {"int", "bool"}) =>
                       arguments[f] \in Range(query.params)

\* A route search bounded below by distance 0 and filtered on snow = false
\* has built its query with both predicates and both values bound.
C20_Witness ==
    /\ tool_name = "get_routes"
    /\ stage = "search"
    /\ arguments.min_distance = I(0)
    /\ arguments.snow = B(FALSE)
    /\ FilterPredicateCount(query.text) = 2
    /\ query.params = <<B(FALSE), I(0), I(10)>>

\* C21: every query get_mountains or get_routes sends to the store for an
\* accepted argument object carries one LIMIT clause, at the end, whose
\* bound value lies in [1, 1000].
C21_LimitAlwaysCapped ==
    \A i \in 1..Len(storeLog) :
        IsSearch =>
            LET t == storeLog[i].text
                params == storeLog[i].params
            IN /\ Count(t, "LIMIT") = 1
               /\ t[Len(t) - 2] = "LIMIT"
               /\ params # <<>>
               /\ Tag(params[Len(params)]) = "int"
               /\ params[Len(params)][2] >= 1
               /\ params[Len(params)][2] <= 1000

\* The positions of the placeholders of a query text, in order.
RECURSIVE PlaceholderPositions(_, _)
PlaceholderPositions(t, from) ==
    IF from > Len(t) THEN <<>>
    ELSE IF t[from] = "%s" THEN <<from>> \o PlaceholderPositions(t, from + 1)
    ELSE PlaceholderPositions(t, from + 1)

\* The token that opens the predicate a placeholder belongs to: the nearest
\* token to its left that is no placeholder, comma or operator.
RECURSIVE PredicateToken(_, _)
PredicateToken(t, j) ==
    IF t[j] \in {"%s", ",", "ILIKE", "="} THEN PredicateToken(t, j - 1) ELSE t[j]

\* The filter whose predicate a token opens.
FilterOf(tool, token) == CHOOSE f \in DOMAIN FilterTokens(tool) : FilterTokens(tool)[f] = token

\* The value the placeholder at position j of the text stands for, read off
\* the handler's arguments by the predicate the placeholder belongs to.
PlaceholderValue(tool, args, t, j) ==
    LET token == PredicateToken(t, j)
    IN CASE token = "AND rank =" -> I(IntLiterals[args.rank_filter[2]])
         [] token = "LIMIT" ->
                I(IF args.limit[2] < 1000 THEN args.limit[2] ELSE 1000)
         [] token = "FROM mountains WHERE mountain_name ILIKE" -> Like(args.mountain_name)
         [] token = "SELECT COUNT(*) FROM routes WHERE mountain_name =" ->
                mountain_data[1].name
         [] token = "AND route_difficulty IN (" ->
                args.route_difficulty[2][Cardinality({k \in 1..j : t[k] = "%s"})
                    - Cardinality({k \in 1..IndexOf(t, token) : t[k] = "%s"})]
         [] token = "AND route_difficulty =" -> args.route_difficulty
         [] OTHER ->
                LET v == args[FilterOf(tool, token)]
                IN IF Tag(v) = "str" THEN Like(v) ELSE v

\* C22: every query a handler builds has as many placeholders as bound
\* parameters, and the i-th parameter is the value of the predicate the
\* i-th placeholder belongs to (the rank number, each filter's value, each
\* difficulty in turn, the capped limit last; the name pattern of a lookup;
\* the resolved name of the route count).
C22_ParametersMatchPlaceholders ==
    (tool_name \in TOOL_HANDLERS /\ stage # "none") =>
        LET t == query.text
            positions == PlaceholderPositions(t, 1)
        IN /\ Len(positions) = Len(query.params)
           /\ \A i \in 1..Len(positions) :
                 query.params[i] = PlaceholderValue(tool_name, arguments, t, positions[i])

\* A route query with a name filter, two difficulties and a limit above the
\* cap has been built: four parameters for four placeholders.
C22_Witness ==
    /\ tool_name = "get_routes"
    /\ stage = "search"
    /\ Count(query.text, "%s") = 4
    /\ query.params = <<Like(S("Elbert")), S("Class 4"), S("Class 3"), I(1000)>>
    /\ arguments.limit = I(5000)

\* C23: at most one store connection is open at any moment of a request;
\* the lookup connection of get_mountain_info is closed before the
\* route-count query opens its own, and the store connection of get_weather
\* is closed before the first HTTP call is made.
C23_OneConnectionAtATime ==
    /\ connOpen <= 1
    /\ (stage = "count" /\ pc = "connect") =>
          /\ connOpen = 0
          /\ connLog = <<"open", "close">>
    /\ (pc \in {"points", "forecast"} \/ httpLog # <<>>) =>
          /\ tool_name = "get_weather"
          /\ connOpen = 0
          /\ connLog = <<"open", "close">>

\* The route-count query of a mountain-info request is about to open its
\* connection, the lookup's connection having been opened and closed.
C23_Witness ==
    /\ tool_name = "get_mountain_info"
    /\ stage = "count"
    /\ pc = "connect"
    /\ fetchLog # <<>>
    /\ connLog = <<"open", "close">>

\* The number of periods of the forecast response of the request, once the
\* forecast call has been answered with periods.
ForecastAnswered ==
    /\ pc = "done"
    /\ outcomes # <<>>
    /\ outcomes[Len(outcomes)][1] = "forecast"
    /\ Len(outcomes[Len(outcomes)]) = 3

PeriodCount == outcomes[Len(outcomes)][3]

\* C24: for a forecast response with n >= 1 periods, current conditions
\* are the readings of the first period, and the forecast is built from the
\* following periods in their order: exactly min(n - 1, 7) entries, the
\* k-th entry being period k + 1, so the first period is never among them.
C24_ForecastFollowsFirstPeriod ==
    (ForecastAnswered /\ PeriodCount >= 1) =>
        LET weather == result.structuredContent[2]
            n == PeriodCount
        IN /\ weather.current_conditions = <<[temperature |-> Period(1).temperature]>>
           /\ Len(weather.forecast) = (IF n - 1 < 7 THEN n - 1 ELSE 7)
           /\ \A k \in 1..Len(weather.forecast) :
                 /\ weather.forecast[k].name = Period(k + 1).name
                 /\ weather.forecast[k].temperature = Period(k + 1).temperature
           /\ \A k \in 1..Len(weather.forecast) : weather.forecast[k].name # Period(1).name

\* A response with nine periods has been shaped: seven forecast entries,
\* periods 2 to 8.
C24_Witness ==
    /\ ForecastAnswered
    /\ PeriodCount = 9
    /\ Len(result.structuredContent[2].forecast) = 7
    /\ result.structuredContent[2].forecast[7].name = I(8)

\* The fields every structured record of a tool's rows has.
RecordFields(tool) ==
    IF tool = "get_mountains" THEN
        {"id", "name", "rank", "elevation", "elevation_ft", "range", "county", "latitude",
         "longitude", "nearby_towns", "image_url", "image_filename", "mountain_url"}
    ELSE
        {"mountain_name", "route_name", "route_difficulty", "roundtrip_distance",
         "elevation_gain", "range", "snow", "risk_factor_exposure", "risk_factor_rockfall",
         "risk_factor_route_finding", "risk_factor_commitment", "route_url", "standard"}

\* A numeric field of a record holds the row's value coerced, and null
\* exactly when the row has no value.
CoercedOrNull(recordValue, rowValue, toFloat) ==
    IF rowValue = None THEN recordValue = None
    ELSE recordValue = (IF toFloat THEN Float(rowValue) ELSE ToInt(rowValue))

\* C25: the record mapped from a mountain or route row has every field, and
\* a numeric field is null only when the row's value is absent: latitude,
\* longitude and roundtrip_distance are the row's values as floats and
\* elevation_gain the row's value as an integer whenever the row has them,
\* the value 0 included.
C25_NumericFieldsKeepZero ==
    (IsSearch /\ pc = "done" /\ Len(fetchLog) = 1) =>
        \A i \in 1..Len(fetchLog[1]) :
            LET row == fetchLog[1][i]
                rec == result.structuredContent[2][i]
            IN /\ RecordFields(tool_name) \subseteq DOMAIN rec
               /\ tool_name = "get_mountains" =>
                     /\ CoercedOrNull(rec.latitude, row.latitude, TRUE)
                     /\ CoercedOrNull(rec.longitude, row.longitude, TRUE)
               /\ tool_name = "get_routes" =>
                     /\ CoercedOrNull(rec.roundtrip_distance, row.roundtrip_distance, TRUE)
                     /\ CoercedOrNull(rec.elevation_gain, row.elevation_gain, FALSE)

\* The lookup of the request returned a row without usable coordinates: a
\* coordinate is missing or outside its range.
NoUsableCoordinates ==
    /\ fetchLog[1] # <<>>
    /\ \/ StoredLatitude = None
       \/ StoredLongitude = None
       \/ OutOfRange(StoredLatitude, StoredLongitude)

\* C26: in get_weather, when the lookup returns no row or the mountain it
\* resolves has no usable coordinates, the request ends at once with an
\* error result - flag set, no payload - and no HTTP call is issued; in
\* get_mountain_info a lookup without rows ends with a non-error result
\* that carries a payload.
C26_WeatherMissingMountainIsError ==
    /\ (tool_name = "get_weather" /\ Len(fetchLog) = 1
        /\ (fetchLog[1] = <<>> \/ NoUsableCoordinates)) =>
          /\ pc = "done"
          /\ result.isError
          /\ result.structuredContent = None
          /\ httpLog = <<>>
          /\ HttpAnswers = <<>>
          /\ result.text.msg =
                (IF fetchLog[1] = <<>> THEN "Error: No mountain found matching "
                 ELSE IF StoredLatitude = None \/ StoredLongitude = None
                 THEN "Error: Mountain does not have GPS coordinates in the database: "
                 ELSE "Error: Invalid coordinates for mountain ")
    /\ (tool_name = "get_mountain_info" /\ Len(fetchLog) = 1 /\ fetchLog[1] = <<>>) =>
          /\ pc = "done"
          /\ ~result.isError
          /\ result.structuredContent # None

\* The weather lookup found no mountain: the request is over with an error
\* naming the search text, and nothing was sent to the weather service.
C26_Witness ==
    /\ tool_name = "get_weather"
    /\ pc = "done"
    /\ fetchLog = << <<>> >>
    /\ result.isError
    /\ result.text.detail = arguments.mountain_name
    /\ httpLog = <<>>

\* The text of a result carries the hint about the default rank exclusion.
CarriesRankHint == result.text.msg = NoMountainsText

\* C27: a get_mountains request whose query returns zero rows ends with a
\* non-error result whose payload is the empty mountains list, and its text
\* carries the rank-exclusion hint when the default exclusion was in effect
\* and does not carry it when the caller chose "include_all"; a zero-row
\* get_routes request ends with a non-error result whose payload is the
\* empty routes list, without the hint.
C27_HintOnlyUnderDefaultExclusion ==
    (IsSearch /\ pc = "done" /\ Len(fetchLog) = 1 /\ fetchLog[1] = <<>>) =>
        /\ ~result.isError
        /\ tool_name = "get_mountains" =>
              /\ result.structuredContent = <<"mountains", <<>>, FALSE>>
              /\ arguments.rank_filter \in {None, S("exclude_unranked")} => CarriesRankHint
              /\ arguments.rank_filter = S("include_all") => ~CarriesRankHint
        /\ tool_name = "get_routes" =>
              /\ result.structuredContent = <<"routes", <<>>, FALSE>>
              /\ result.text.msg = "No routes found matching the criteria."
              /\ ~CarriesRankHint

\* The request ended without error.
Succeeded == pc = "done" /\ tool_name \in TOOL_HANDLERS /\ ~result.isError

\* The request ended without error and delivered what it looked up: the
\* store returned at least one row for it.
Delivered == Succeeded /\ fetchLog # <<>> /\ fetchLog[1] # <<>>

\* C28 as stated: get_routes is the only tool without widget-invocation
\* metadata; the tool definitions of the other three carry a metadata
\* block, and so do their successful results.
C28_OnlyRoutesWithoutMetadata ==
    /\ \A t \in TOOL_HANDLERS : (_list_tools[t] = "none") <=> (t = "get_routes")
    /\ Succeeded => ((result.meta = "none") <=> (tool_name = "get_routes"))

\* C28: get_mountains and get_mountain_info carry widget-invocation
\* metadata - on their tool definition, and on the results that deliver at
\* least one mountain, built from the same widget - while get_routes and
\* get_weather carry none on their definition nor on any result; results
\* that deliver nothing and error results carry none either.
C28_MetadataOnWidgetToolsOnly ==
    /\ {t \in TOOL_HANDLERS : _list_tools[t] # "none"} = {"get_mountains", "get_mountain_info"}
    /\ (pc = "done" /\ tool_name \in TOOL_HANDLERS) =>
          result.meta = (IF Delivered THEN _list_tools[tool_name] ELSE "none")

\* A weather request delivered its forecast, and the result carries no
\* widget-invocation metadata.
C28_Witness ==
    /\ tool_name = "get_weather"
    /\ Delivered
    /\ ForecastAnswered
    /\ PeriodCount >= 1
    /\ result.meta = "none"

====
